---- MODULE Spec2Model ----
(***************************************************************************)
(* Model of the migration commands of sqlx-cli (src/sqlx-cli/src/migrate.rs)*)
(* driving the Migrate store trait (src/sqlx-core/src/migrate/migrate.rs).  *)
(*                                                                          *)
(* A command invocation (run / revert) is an async function: it suspends at *)
(* every store call.  Each action below is the code between two suspension  *)
(* points of one invocation, so that two invocations against the same       *)
(* database interleave exactly where the program can.                       *)
(*                                                                          *)
(* The bookkeeping table is a function from applied versions to rows        *)
(* [checksum, success]; a row with success = FALSE is the dirty marker.     *)
(* The reads of the table (ensure_migrations_table, dirty_version,          *)
(* list_applied_migrations) are taken to succeed; apply and revert execute  *)
(* a script and may fail.                                                   *)
(***************************************************************************)
EXTENDS Integers, Sequences, FiniteSets, TLC

\* Highest migration version of the model: versions are 1..MaxVersion.
MaxVersion == 2

\* Longest recorded history of finished invocations (SpecSeq).
MaxInvocations == 4

Versions == 1..MaxVersion

\* Option<T> is a set with at most one element: None == {}, Some(x) == {x}.
None == {}
Some(x) == {x}

\* The two processes that may invoke a command against the database.
Procs == {"p1", "p2"}

-----------------------------------------------------------------------------
(* Migration records and the catalog (Migrator).                           *)

\* MigrationType
MigrationType == {"Simple", "ReversibleUp", "ReversibleDown"}

\* MigrationType::is_up_migration
is_up_migration(t) == t \in {"Simple", "ReversibleUp"}

\* MigrationType::is_down_migration
is_down_migration(t) == t = "ReversibleDown"

\* Checksum of the script of a catalog record: the up and the down script of
\* a version are different files.  "old" is the checksum of a script that
\* was edited after it was applied.
ChecksumOf(t) == IF is_down_migration(t) THEN "down" ELSE "cur"

Migration(v, t) == [version |-> v, migration_type |-> t, checksum |-> ChecksumOf(t)]

\* What the migration source holds for one version.
Shapes == {"absent", "simple", "reversible", "downonly"}

RecordsOf(v, shape) ==
    CASE shape = "absent"     -> << >>
      [] shape = "simple"     -> << Migration(v, "Simple") >>
      [] shape = "reversible" -> << Migration(v, "ReversibleUp"), Migration(v, "ReversibleDown") >>
      [] shape = "downonly"   -> << Migration(v, "ReversibleDown") >>

\* Migrator::new: the records of the source, sorted ascending by version.
RECURSIVE MigratorFrom(_, _)
MigratorFrom(shapes, v) ==
    IF v > MaxVersion THEN << >>
    ELSE RecordsOf(v, shapes[v]) \o MigratorFrom(shapes, v + 1)

Catalogs == { MigratorFrom(sh, 1) : sh \in [Versions -> Shapes] }

\* Migrator::version_exists
version_exists(m, v) ==
    \E i \in 1..Len(m) : m[i].version = v /\ is_up_migration(m[i].migration_type)

-----------------------------------------------------------------------------
(* The store: the bookkeeping table behind the Migrate trait.              *)

Rows == [checksum : {"cur", "old"}, success : BOOLEAN]

Tables == UNION { [S -> Rows] : S \in SUBSET Versions }

Min(S) == CHOOSE x \in S : \A y \in S : x <= y
Max(S) == CHOOSE x \in S : \A y \in S : x >= y

\* Migrate::dirty_version
dirty_version(t) ==
    LET bad == { v \in DOMAIN t : ~t[v].success }
    IN  IF bad = {} THEN None ELSE Some(Min(bad))

\* AppliedMigration
AppliedMigration(v, c) == [version |-> v, checksum |-> c]

RECURSIVE SortedRows(_, _)
SortedRows(t, S) ==
    IF S = {} THEN << >>
    ELSE LET v == Min(S)
         IN  << AppliedMigration(v, t[v].checksum) >> \o SortedRows(t, S \ {v})

\* Migrate::list_applied_migrations
list_applied_migrations(t) == SortedRows(t, DOMAIN t)

\* Migrate::apply, the script succeeding: the row is inserted.
StoreApplyOk(t, m) ==
    [v \in DOMAIN t \cup {m.version} |->
        IF v = m.version THEN [checksum |-> m.checksum, success |-> TRUE] ELSE t[v]]

\* Migrate::apply, the script failing and leaving the dirty marker.
StoreApplyDirty(t, m) ==
    [v \in DOMAIN t \cup {m.version} |->
        IF v = m.version THEN [checksum |-> m.checksum, success |-> FALSE] ELSE t[v]]

\* Migrate::apply: the tables the call can leave, with whether it returned Ok.
\* A version whose row exists cannot be inserted again.
ApplyOutcomes(t, m) ==
    IF m.version \in DOMAIN t
    THEN { [ok |-> FALSE, table |-> t] }
    ELSE { [ok |-> TRUE,  table |-> StoreApplyOk(t, m)],
           [ok |-> FALSE, table |-> StoreApplyDirty(t, m)],
           [ok |-> FALSE, table |-> t] }

\* StoreRevertOk that leaves the row in the table.
StoreRevertOk_KeepsRow(t, m) == t

\* Migrate::revert, the script succeeding: the row is deleted.
StoreRevertOk(t, m) == [v \in DOMAIN t \ {m.version} |-> t[v]]

\* Migrate::revert, the script failing and leaving the dirty marker.
StoreRevertDirty(t, m) ==
    [v \in DOMAIN t |-> IF v = m.version THEN [t[v] EXCEPT !.success = FALSE] ELSE t[v]]

\* Migrate::revert: the tables the call can leave, with whether it returned Ok.
RevertOutcomes(t, m) ==
    { [ok |-> TRUE,  table |-> StoreRevertOk(t, m)],
      [ok |-> FALSE, table |-> StoreRevertDirty(t, m)],
      [ok |-> FALSE, table |-> t] }

-----------------------------------------------------------------------------
(* Pure parts of run and revert.                                           *)

\* validate_applied_migrations with the ignore_missing test inverted.
validate_applied_migrations_Inverted(applied, m, ignore_missing) ==
    LET migrations == { m[i].version : i \in 1..Len(m) }
        missing    == { i \in 1..Len(applied) : applied[i].version \notin migrations }
    IN  IF ~ignore_missing \/ missing = {} THEN None
        ELSE Some(applied[Min(missing)].version)

\* validate_applied_migrations: the first applied version, in list order,
\* that no catalog record (of any kind) has; None when there is none or
\* when ignore_missing is set.
validate_applied_migrations(applied, m, ignore_missing) ==
    LET migrations == { m[i].version : i \in 1..Len(m) }
        missing    == { i \in 1..Len(applied) : applied[i].version \notin migrations }
    IN  IF ignore_missing \/ missing = {} THEN None
        ELSE Some(applied[Min(missing)].version)

\* latest_version: the highest applied version, 0 when nothing is applied.
latest_version(applied) ==
    IF Len(applied) = 0 THEN 0
    ELSE Max({ applied[i].version : i \in 1..Len(applied) })

\* VersionTooOld with <= for <: the latest version itself is too old.
VersionTooOld_OrEqual(target_version, latest) == \E t \in target_version : t <= latest

\* run: target_version < latest_version
VersionTooOld(target_version, latest) == \E t \in target_version : t < latest

\* VersionTooNew with >= for >: the latest version itself is too new.
VersionTooNew_OrEqual(target_version, latest) == \E t \in target_version : t >= latest

\* revert: target_version > latest_version
VersionTooNew(target_version, latest) == \E t \in target_version : t > latest

\* run: target_version is given and is not in the catalog
RunTargetNotPresent(m, target_version) ==
    \E t \in target_version : ~version_exists(m, t)

\* RevertTargetNotPresent without the exemption of target 0.
RevertTargetNotPresent_NoZero(m, target_version) ==
    \E t \in target_version : ~version_exists(m, t)

\* revert: target_version is given, is not 0 and is not in the catalog
RevertTargetNotPresent(m, target_version) ==
    \E t \in target_version : t # 0 /\ ~version_exists(m, t)

\* AppliedMap that takes every version below the latest applied one for
\* applied, with the checksum of the current script.
AppliedMap_UpToLatest(applied) ==
    LET rows == { applied[i].version : i \in 1..Len(applied) }
        top  == IF rows = {} THEN 0 ELSE Max(rows)
    IN  [v \in 1..top |->
            IF v \in rows
            THEN (CHOOSE c \in { applied[i].checksum : i \in { j \in 1..Len(applied) : applied[j].version = v } } : TRUE)
            ELSE "cur"]

\* The HashMap of the applied rows by version.
AppliedMap(applied) ==
    [v \in { applied[i].version : i \in 1..Len(applied) } |->
        (CHOOSE c \in { applied[i].checksum : i \in { j \in 1..Len(applied) : applied[j].version = v } } : TRUE)]

\* RunSkip with >= for >: the target itself is skipped.
RunSkip_AtTarget(target_version, migration) ==
    \E t \in target_version : migration.version >= t

\* run: skip == the migration is above the target
RunSkip(target_version, migration) ==
    \E t \in target_version : migration.version > t

\* RevertSkip with < for <=: the target itself is reverted.
RevertSkip_BelowTarget(target_version, migration) ==
    \E t \in target_version : migration.version < t

\* revert: skip == the migration is at or below the target
RevertSkip(target_version, migration) ==
    \E t \in target_version : migration.version <= t

\* run / revert: the text of the report line
ReportText(skip, dry_run) ==
    IF skip THEN "Skipped" ELSE IF dry_run THEN "Can apply" ELSE "Applied"

\* RunPassesOver that passes over no record.
RunPassesOver_Never(migration) == FALSE

\* run: the record is not an up migration and is passed over
RunPassesOver(migration) == is_down_migration(migration.migration_type)

\* revert: the record is not a down migration and is passed over
RevertPassesOver(migration) == ~is_down_migration(migration.migration_type)

\* ChecksumMismatch that never finds a difference.
ChecksumMismatch_Never(migration, applied_checksum) == FALSE

\* run: the checksums of the catalog record and of the applied row differ
ChecksumMismatch(migration, applied_checksum) == migration.checksum # applied_checksum

\* CallsStore without the dry_run test.
CallsStore_IgnoresDryRun(dry_run, skip) == ~skip

\* run / revert: the store primitive is called
CallsStore(dry_run, skip) == ~(dry_run \/ skip)

\* RevertIsApplied that takes every version for applied.
RevertIsApplied_Always(applied_map, migration) == TRUE

\* revert: the snapshot holds the version of the migration
RevertIsApplied(applied_map, migration) == migration.version \in DOMAIN applied_map

\* RevertBreaks without the break.
RevertBreaks_Never(target_version) == FALSE

\* revert: the loop ends after the first applied down migration
RevertBreaks(target_version) == target_version = None

-----------------------------------------------------------------------------
(* State.                                                                  *)

VARIABLES
    migrator,            \* the catalog of the migration source
    table,               \* the bookkeeping table of the database
    pc,                  \* where each process's invocation stands
    cmd,                 \* the arguments of each process's invocation
    applied_migrations,  \* the snapshot each invocation read (version -> checksum)
    idx,                 \* position of each invocation's loop in the catalog
    is_applied,          \* revert's is_applied flag
    result,              \* what each invocation returned
    calls,               \* the store calls each invocation has made, in order
    out,                 \* the report lines each invocation has printed
    before,              \* the table when each invocation started
    trace                \* the finished invocations, oldest first

vars == << migrator, table, pc, cmd, applied_migrations, idx, is_applied,
           result, calls, out, before, trace >>

NoCmd == [op |-> "none", dry_run |-> FALSE, ignore_missing |-> FALSE,
          target_version |-> None]

Targets == { None } \cup { Some(t) : t \in 0..MaxVersion }

NoResult == << "None" >>
Ok == << "Ok" >>

EmptyTable == [v \in {} |-> [checksum |-> "cur", success |-> TRUE]]

EmptyMap == [v \in {} |-> "cur"]

Call(name, v) == << name, v >>

InitLocals ==
    /\ pc = [p \in Procs |-> "idle"]
    /\ cmd = [p \in Procs |-> NoCmd]
    /\ applied_migrations = [p \in Procs |-> EmptyMap]
    /\ idx = [p \in Procs |-> 0]
    /\ is_applied = [p \in Procs |-> FALSE]
    /\ result = [p \in Procs |-> NoResult]
    /\ calls = [p \in Procs |-> << >>]
    /\ out = [p \in Procs |-> << >>]
    /\ before = [p \in Procs |-> EmptyTable]
    /\ trace = << >>

Init ==
    /\ migrator \in Catalogs
    /\ table \in Tables
    /\ InitLocals

\* An invocation ends with `r`; on an error path the connection is dropped
\* without a call.
Ends(p, r) ==
    /\ result' = [result EXCEPT ![p] = r]
    /\ pc' = [pc EXCEPT ![p] = "done"]

-----------------------------------------------------------------------------
(* run                                                                     *)

\* run, up to the connection: load the catalog, check the target.
RunStart(p, dry_run, ignore_missing, target_version) ==
    /\ pc[p] = "idle"
    /\ cmd' = [cmd EXCEPT ![p] = [op |-> "run", dry_run |-> dry_run,
                                  ignore_missing |-> ignore_missing,
                                  target_version |-> target_version]]
    /\ before' = [before EXCEPT ![p] = table]
    /\ IF RunTargetNotPresent(migrator, target_version)
       THEN Ends(p, << "VersionNotPresent", CHOOSE t \in target_version : TRUE >>)
       ELSE /\ pc' = [pc EXCEPT ![p] = "connect"]
            /\ UNCHANGED result
    /\ UNCHANGED << migrator, table, applied_migrations, idx, is_applied, calls, out, trace >>

\* run: connect and ensure_migrations_table.
RunConnect(p) ==
    /\ pc[p] = "connect" /\ cmd[p].op = "run"
    /\ calls' = [calls EXCEPT ![p] = @ \o << Call("connect", 0), Call("ensure_migrations_table", 0) >>]
    /\ pc' = [pc EXCEPT ![p] = "dirty"]
    /\ UNCHANGED << migrator, table, cmd, applied_migrations, idx, is_applied, result, out, before, trace >>

\* RunDirtyVersion without the bail on a dirty version.
RunDirtyVersion_NoBail(p) ==
    /\ pc[p] = "dirty" /\ cmd[p].op = "run"
    /\ calls' = [calls EXCEPT ![p] = Append(@, Call("dirty_version", 0))]
    /\ pc' = [pc EXCEPT ![p] = "list"]
    /\ UNCHANGED << migrator, table, cmd, applied_migrations, idx, is_applied, result, out, before, trace >>

\* run: dirty_version.
RunDirtyVersion(p) ==
    /\ pc[p] = "dirty" /\ cmd[p].op = "run"
    /\ calls' = [calls EXCEPT ![p] = Append(@, Call("dirty_version", 0))]
    /\ LET version == dirty_version(table)
       IN  IF version # None
           THEN Ends(p, << "Dirty", CHOOSE v \in version : TRUE >>)
           ELSE /\ pc' = [pc EXCEPT ![p] = "list"]
                /\ UNCHANGED result
    /\ UNCHANGED << migrator, table, cmd, applied_migrations, idx, is_applied, out, before, trace >>

\* run: list_applied_migrations, validate_applied_migrations, latest_version.
RunListApplied(p) ==
    /\ pc[p] = "list" /\ cmd[p].op = "run"
    /\ calls' = [calls EXCEPT ![p] = Append(@, Call("list_applied_migrations", 0))]
    /\ LET applied == list_applied_migrations(table)
           missing == validate_applied_migrations(applied, migrator, cmd[p].ignore_missing)
           latest  == latest_version(applied)
       IN  IF missing # None
           THEN /\ Ends(p, << "VersionMissing", CHOOSE v \in missing : TRUE >>)
                /\ UNCHANGED << applied_migrations, idx >>
           ELSE IF VersionTooOld(cmd[p].target_version, latest)
           THEN /\ Ends(p, << "VersionTooOld", CHOOSE t \in cmd[p].target_version : TRUE, latest >>)
                /\ UNCHANGED << applied_migrations, idx >>
           ELSE /\ applied_migrations' = [applied_migrations EXCEPT ![p] = AppliedMap(applied)]
                /\ idx' = [idx EXCEPT ![p] = 1]
                /\ pc' = [pc EXCEPT ![p] = "loop"]
                /\ UNCHANGED result
    /\ UNCHANGED << migrator, table, cmd, is_applied, out, before, trace >>

\* run: one iteration of the loop over the catalog, ascending.
RunLoop(p) ==
    /\ pc[p] = "loop" /\ cmd[p].op = "run"
    /\ idx[p] <= Len(migrator)
    /\ LET migration == migrator[idx[p]]
           skip      == RunSkip(cmd[p].target_version, migration)
           text      == ReportText(skip, cmd[p].dry_run)
           report    == [out EXCEPT ![p] = Append(@, << text, migration.version >>)]
           next      == [idx EXCEPT ![p] = @ + 1]
       IN  IF RunPassesOver(migration)
           THEN /\ idx' = next
                /\ UNCHANGED << table, pc, result, calls, out >>
           ELSE IF migration.version \in DOMAIN applied_migrations[p]
           THEN IF ChecksumMismatch(migration, applied_migrations[p][migration.version])
                THEN /\ Ends(p, << "VersionMismatch", migration.version >>)
                     /\ UNCHANGED << table, idx, calls, out >>
                ELSE /\ idx' = next
                     /\ UNCHANGED << table, pc, result, calls, out >>
           ELSE IF CallsStore(cmd[p].dry_run, skip)
           THEN /\ calls' = [calls EXCEPT ![p] = Append(@, Call("apply", migration.version))]
                /\ \E o \in ApplyOutcomes(table, migration) :
                      /\ table' = o.table
                      /\ IF o.ok
                         THEN /\ out' = report
                              /\ idx' = next
                              /\ UNCHANGED << pc, result >>
                         ELSE /\ Ends(p, << "Execute", migration.version >>)
                              /\ UNCHANGED << idx, out >>
           ELSE /\ out' = report
                /\ idx' = next
                /\ UNCHANGED << table, pc, result, calls >>
    /\ UNCHANGED << migrator, cmd, applied_migrations, is_applied, before, trace >>

\* run: the loop is over; close the connection (its result is ignored).
RunClose(p) ==
    /\ pc[p] = "loop" /\ cmd[p].op = "run"
    /\ idx[p] > Len(migrator)
    /\ calls' = [calls EXCEPT ![p] = Append(@, Call("close", 0))]
    /\ Ends(p, Ok)
    /\ UNCHANGED << migrator, table, cmd, applied_migrations, idx, is_applied, out, before, trace >>

-----------------------------------------------------------------------------
(* revert                                                                  *)

\* revert, up to the connection: load the catalog, check the target.
RevertStart(p, dry_run, ignore_missing, target_version) ==
    /\ pc[p] = "idle"
    /\ cmd' = [cmd EXCEPT ![p] = [op |-> "revert", dry_run |-> dry_run,
                                  ignore_missing |-> ignore_missing,
                                  target_version |-> target_version]]
    /\ before' = [before EXCEPT ![p] = table]
    /\ IF RevertTargetNotPresent(migrator, target_version)
       THEN Ends(p, << "VersionNotPresent", CHOOSE t \in target_version : TRUE >>)
       ELSE /\ pc' = [pc EXCEPT ![p] = "connect"]
            /\ UNCHANGED result
    /\ UNCHANGED << migrator, table, applied_migrations, idx, is_applied, calls, out, trace >>

\* revert: connect and ensure_migrations_table.
RevertConnect(p) ==
    /\ pc[p] = "connect" /\ cmd[p].op = "revert"
    /\ calls' = [calls EXCEPT ![p] = @ \o << Call("connect", 0), Call("ensure_migrations_table", 0) >>]
    /\ pc' = [pc EXCEPT ![p] = "dirty"]
    /\ UNCHANGED << migrator, table, cmd, applied_migrations, idx, is_applied, result, out, before, trace >>

\* RevertDirtyVersion without the bail on a dirty version.
RevertDirtyVersion_NoBail(p) ==
    /\ pc[p] = "dirty" /\ cmd[p].op = "revert"
    /\ calls' = [calls EXCEPT ![p] = Append(@, Call("dirty_version", 0))]
    /\ pc' = [pc EXCEPT ![p] = "list"]
    /\ UNCHANGED << migrator, table, cmd, applied_migrations, idx, is_applied, result, out, before, trace >>

\* revert: dirty_version.
RevertDirtyVersion(p) ==
    /\ pc[p] = "dirty" /\ cmd[p].op = "revert"
    /\ calls' = [calls EXCEPT ![p] = Append(@, Call("dirty_version", 0))]
    /\ LET version == dirty_version(table)
       IN  IF version # None
           THEN Ends(p, << "Dirty", CHOOSE v \in version : TRUE >>)
           ELSE /\ pc' = [pc EXCEPT ![p] = "list"]
                /\ UNCHANGED result
    /\ UNCHANGED << migrator, table, cmd, applied_migrations, idx, is_applied, out, before, trace >>

\* revert: list_applied_migrations, validate_applied_migrations,
\* latest_version; is_applied starts false and the loop at the last record.
RevertListApplied(p) ==
    /\ pc[p] = "list" /\ cmd[p].op = "revert"
    /\ calls' = [calls EXCEPT ![p] = Append(@, Call("list_applied_migrations", 0))]
    /\ LET applied == list_applied_migrations(table)
           missing == validate_applied_migrations(applied, migrator, cmd[p].ignore_missing)
           latest  == latest_version(applied)
       IN  IF missing # None
           THEN /\ Ends(p, << "VersionMissing", CHOOSE v \in missing : TRUE >>)
                /\ UNCHANGED << applied_migrations, idx >>
           ELSE IF VersionTooNew(cmd[p].target_version, latest)
           THEN /\ Ends(p, << "VersionTooNew", CHOOSE t \in cmd[p].target_version : TRUE, latest >>)
                /\ UNCHANGED << applied_migrations, idx >>
           ELSE /\ applied_migrations' = [applied_migrations EXCEPT ![p] = AppliedMap(applied)]
                /\ idx' = [idx EXCEPT ![p] = Len(migrator)]
                /\ pc' = [pc EXCEPT ![p] = "loop"]
                /\ UNCHANGED result
    /\ UNCHANGED << migrator, table, cmd, is_applied, out, before, trace >>

\* revert: one iteration of the loop over the catalog, descending.
RevertLoop(p) ==
    /\ pc[p] = "loop" /\ cmd[p].op = "revert"
    /\ idx[p] >= 1
    /\ LET migration == migrator[idx[p]]
           skip      == RevertSkip(cmd[p].target_version, migration)
           text      == ReportText(skip, cmd[p].dry_run)
           report    == [out EXCEPT ![p] = Append(@, << text, migration.version >>)]
           next      == [idx EXCEPT ![p] = IF RevertBreaks(cmd[p].target_version) THEN 0 ELSE @ - 1]
       IN  IF RevertPassesOver(migration)
           THEN /\ idx' = [idx EXCEPT ![p] = @ - 1]
                /\ UNCHANGED << table, pc, is_applied, result, calls, out >>
           ELSE IF RevertIsApplied(applied_migrations[p], migration)
           THEN IF CallsStore(cmd[p].dry_run, skip)
                THEN /\ calls' = [calls EXCEPT ![p] = Append(@, Call("revert", migration.version))]
                     /\ \E o \in RevertOutcomes(table, migration) :
                           /\ table' = o.table
                           /\ IF o.ok
                              THEN /\ out' = report
                                   /\ is_applied' = [is_applied EXCEPT ![p] = TRUE]
                                   /\ idx' = next
                                   /\ UNCHANGED << pc, result >>
                              ELSE /\ Ends(p, << "Execute", migration.version >>)
                                   /\ UNCHANGED << idx, is_applied, out >>
                ELSE /\ out' = report
                     /\ is_applied' = [is_applied EXCEPT ![p] = TRUE]
                     /\ idx' = next
                     /\ UNCHANGED << table, pc, result, calls >>
           ELSE /\ idx' = [idx EXCEPT ![p] = @ - 1]
                /\ UNCHANGED << table, pc, is_applied, result, calls, out >>
    /\ UNCHANGED << migrator, cmd, applied_migrations, before, trace >>

NoMigrations == << "No migrations available to revert", 0 >>

\* revert: the loop is over; report when nothing was reverted and close the
\* connection (its result is ignored).
RevertClose(p) ==
    /\ pc[p] = "loop" /\ cmd[p].op = "revert"
    /\ idx[p] < 1
    /\ out' = [out EXCEPT ![p] = IF ~is_applied[p] THEN Append(@, NoMigrations) ELSE @]
    /\ calls' = [calls EXCEPT ![p] = Append(@, Call("close", 0))]
    /\ Ends(p, Ok)
    /\ UNCHANGED << migrator, table, cmd, applied_migrations, idx, is_applied, before, trace >>

-----------------------------------------------------------------------------
(* The end of an invocation: the process exits and its state is gone.      *)

ResetLocals(p) ==
    /\ pc' = [pc EXCEPT ![p] = "idle"]
    /\ cmd' = [cmd EXCEPT ![p] = NoCmd]
    /\ applied_migrations' = [applied_migrations EXCEPT ![p] = EmptyMap]
    /\ idx' = [idx EXCEPT ![p] = 0]
    /\ is_applied' = [is_applied EXCEPT ![p] = FALSE]
    /\ result' = [result EXCEPT ![p] = NoResult]
    /\ calls' = [calls EXCEPT ![p] = << >>]
    /\ out' = [out EXCEPT ![p] = << >>]
    /\ before' = [before EXCEPT ![p] = EmptyTable]

\* The command returns to the shell.
Return(p) ==
    /\ pc[p] = "done"
    /\ ResetLocals(p)
    /\ UNCHANGED << migrator, table, trace >>

\* The command returns to the shell, which keeps what it saw of it.
ReturnRecorded(p) ==
    /\ pc[p] = "done"
    /\ Len(trace) < MaxInvocations
    /\ trace' = Append(trace, [cmd |-> cmd[p], result |-> result[p], calls |-> calls[p],
                               out |-> out[p], before |-> before[p], after |-> table])
    /\ ResetLocals(p)
    /\ UNCHANGED << migrator, table >>

-----------------------------------------------------------------------------
(* info                                                                    *)

\* InfoPassesOver that passes over no record.
InfoPassesOver_Never(migration) == FALSE

\* info: the record is a down migration and is passed over
InfoPassesOver(migration) == is_down_migration(migration.migration_type)

\* info: status_msg of a catalog record against the applied rows
InfoStatus(applied_map, migration) ==
    IF migration.version \in DOMAIN applied_map
    THEN IF applied_map[migration.version] # migration.checksum
         THEN "installed (different checksum)"
         ELSE "installed"
    ELSE "pending"

\* info: the lines printed for one record, the two checksum lines after a
\* mismatch (short_checksum prints the checksum in hexadecimal).
InfoLines(applied_map, migration) ==
    LET status_msg == InfoStatus(applied_map, migration)
    IN  << << status_msg, migration.version >> >> \o
        (IF status_msg = "installed (different checksum)"
         THEN << << "applied migration had checksum", migration.version,
                    applied_map[migration.version] >>,
                 << "local migration has checksum", migration.version, migration.checksum >> >>
         ELSE << >>)

\* info, up to the connection: load the catalog.
InfoStart(p) ==
    /\ pc[p] = "idle"
    /\ cmd' = [cmd EXCEPT ![p] = [op |-> "info", dry_run |-> FALSE,
                                  ignore_missing |-> FALSE, target_version |-> None]]
    /\ before' = [before EXCEPT ![p] = table]
    /\ pc' = [pc EXCEPT ![p] = "connect"]
    /\ UNCHANGED << migrator, table, applied_migrations, idx, is_applied, result, calls, out, trace >>

\* info: connect and ensure_migrations_table.
InfoConnect(p) ==
    /\ pc[p] = "connect" /\ cmd[p].op = "info"
    /\ calls' = [calls EXCEPT ![p] = @ \o << Call("connect", 0), Call("ensure_migrations_table", 0) >>]
    /\ pc' = [pc EXCEPT ![p] = "list"]
    /\ UNCHANGED << migrator, table, cmd, applied_migrations, idx, is_applied, result, out, before, trace >>

\* info: list_applied_migrations into the HashMap.
InfoListApplied(p) ==
    /\ pc[p] = "list" /\ cmd[p].op = "info"
    /\ calls' = [calls EXCEPT ![p] = Append(@, Call("list_applied_migrations", 0))]
    /\ applied_migrations' = [applied_migrations EXCEPT ![p] = AppliedMap(list_applied_migrations(table))]
    /\ idx' = [idx EXCEPT ![p] = 1]
    /\ pc' = [pc EXCEPT ![p] = "loop"]
    /\ UNCHANGED << migrator, table, cmd, is_applied, result, out, before, trace >>

\* info: one iteration of the loop over the catalog.
InfoLoop(p) ==
    /\ pc[p] = "loop" /\ cmd[p].op = "info"
    /\ idx[p] <= Len(migrator)
    /\ LET migration == migrator[idx[p]]
       IN  IF InfoPassesOver(migration)
           THEN UNCHANGED out
           ELSE out' = [out EXCEPT ![p] = @ \o InfoLines(applied_migrations[p], migration)]
    /\ idx' = [idx EXCEPT ![p] = @ + 1]
    /\ UNCHANGED << migrator, table, pc, cmd, applied_migrations, is_applied, result, calls, before, trace >>

\* info: the loop is over; close the connection (its result is ignored).
InfoClose(p) ==
    /\ pc[p] = "loop" /\ cmd[p].op = "info"
    /\ idx[p] > Len(migrator)
    /\ calls' = [calls EXCEPT ![p] = Append(@, Call("close", 0))]
    /\ Ends(p, Ok)
    /\ UNCHANGED << migrator, table, cmd, applied_migrations, idx, is_applied, out, before, trace >>

-----------------------------------------------------------------------------
(* Specifications.                                                         *)

Invoke(p) ==
    \E dry_run \in BOOLEAN, ignore_missing \in BOOLEAN, target_version \in Targets :
        \/ RunStart(p, dry_run, ignore_missing, target_version)
        \/ RevertStart(p, dry_run, ignore_missing, target_version)

StepInfo(p) ==
    \/ InfoConnect(p)
    \/ InfoListApplied(p)
    \/ InfoLoop(p)
    \/ InfoClose(p)

Step(p) ==
    \/ RunConnect(p)
    \/ RunDirtyVersion(p)
    \/ RunListApplied(p)
    \/ RunLoop(p)
    \/ RunClose(p)
    \/ RevertConnect(p)
    \/ RevertDirtyVersion(p)
    \/ RevertListApplied(p)
    \/ RevertLoop(p)
    \/ RevertClose(p)

\* One process invoking commands one after the other, from any catalog and
\* any state of the bookkeeping table.
Next == Invoke("p1") \/ InfoStart("p1") \/ Step("p1") \/ StepInfo("p1") \/ Return("p1")

Spec == Init /\ [][Next]_vars

\* The tables whose rows are the current scripts, applied with success.
CurrentTables ==
    { t \in Tables : \A v \in DOMAIN t : t[v].success /\ t[v].checksum = "cur" }

InitSeq ==
    /\ migrator \in Catalogs
    /\ table \in CurrentTables
    /\ InitLocals

\* A run or a revert with the default arguments: not a dry run, not ignoring
\* missing versions, no target.
InvokePlain(p) ==
    \/ RunStart(p, FALSE, FALSE, None)
    \/ RevertStart(p, FALSE, FALSE, None)

NextSeq == InvokePlain("p1") \/ Step("p1") \/ ReturnRecorded("p1")

\* One process invoking plain commands one after the other, the outcome of
\* each kept in `trace`.
SpecSeq == InitSeq /\ [][NextSeq]_vars

InitConc ==
    /\ migrator \in Catalogs
    /\ table \in CurrentTables
    /\ InitLocals

NextConc == \E p \in Procs : InvokePlain(p) \/ Step(p) \/ Return(p)

\* Two processes invoking commands against the same database, interleaved
\* at their store calls.
SpecConc == InitConc /\ [][NextConc]_vars

-----------------------------------------------------------------------------
(* Vocabulary of the properties.                                           *)

UpVersions(m) == { m[i].version : i \in { j \in 1..Len(m) : is_up_migration(m[j].migration_type) } }

DownVersions(m) == { m[i].version : i \in { j \in 1..Len(m) : is_down_migration(m[j].migration_type) } }

CatalogVersions(m) == { m[i].version : i \in 1..Len(m) }

DirtyVersions(t) == { v \in DOMAIN t : ~t[v].success }

\* The applied up-migrations whose catalog checksum is not the recorded one.
MismatchedVersions(m, t) == { v \in DOMAIN t \cap UpVersions(m) : t[v].checksum # "cur" }

\* The versions for which a log of calls holds a call of `name`.
CalledFor(log, name) == { log[i][2] : i \in { j \in 1..Len(log) : log[j][1] = name } }

\* The number of calls of `name` in a log of calls.
CountOf(log, name) == Cardinality({ i \in 1..Len(log) : log[i][1] = name })

NoChangeCalls(log) == CalledFor(log, "apply") = {} /\ CalledFor(log, "revert") = {}

Reported(lines, text) == { lines[i][2] : i \in { j \in 1..Len(lines) : lines[j][1] = text } }

MaxOf(S) == IF S = {} THEN 0 ELSE Max(S)

\* The target passes the target-presence check of its command.
TargetPresent(c, m) ==
    \A t \in c.target_version : t \in UpVersions(m) \/ (c.op = "revert" /\ t = 0)

Started(p) == pc[p] # "idle"

Finished(p) == pc[p] = "done"

-----------------------------------------------------------------------------
(* C1 - C5, C10: one invocation at a time (Spec).                          *)

\* C1: when the table holds a dirty marker, a run or a revert whose target
\* passes the presence check ends with Dirty(D), D a dirty version, makes no
\* apply or revert call, and leaves the table as it was.
C1_DirtyBlocksRunAndRevert ==
    \A p \in Procs :
        (/\ Started(p) /\ cmd[p].op \in { "run", "revert" }
         /\ DirtyVersions(before[p]) # {} /\ TargetPresent(cmd[p], migrator)) =>
            /\ NoChangeCalls(calls[p])
            /\ table = before[p]
            /\ pc[p] \in {"connect", "dirty", "done"}
            /\ Finished(p) => /\ result[p][1] = "Dirty"
                              /\ result[p][2] \in DirtyVersions(before[p])

C1_Witness ==
    \E p \in Procs :
        /\ Finished(p) /\ cmd[p].op = "revert" /\ ~cmd[p].dry_run
        /\ cmd[p].target_version = Some(0)
        /\ 1 \in DOMAIN before[p] /\ 2 \in DirtyVersions(before[p])
        /\ result[p] = << "Dirty", 2 >>

\* The premise of C2: a finished run, not dry, on a table with no dirty
\* marker and no missing version, with a target that is present and not
\* below the latest applied version, and some applied up-migration whose
\* checksum has changed.
C2_Case(p) ==
    /\ Finished(p) /\ cmd[p].op = "run" /\ ~cmd[p].dry_run
    /\ DirtyVersions(before[p]) = {}
    /\ DOMAIN before[p] \subseteq CatalogVersions(migrator)
    /\ TargetPresent(cmd[p], migrator)
    /\ \A t \in cmd[p].target_version : t >= MaxOf(DOMAIN before[p])
    /\ MismatchedVersions(migrator, before[p]) # {}

\* C2 as claimed, in its most favourable case (no script fails): such a run
\* ends with VersionMismatch and makes no apply call at all.
C2_NoApplyAtAll ==
    \A p \in Procs :
        (C2_Case(p) /\ result[p][1] # "Execute") =>
            /\ result[p][1] = "VersionMismatch"
            /\ result[p][2] \in MismatchedVersions(migrator, before[p])
            /\ CalledFor(calls[p], "apply") = {}

\* C2 amended: such a run makes no apply call for the lowest mismatched
\* version m or for any version above it; it ends with VersionMismatch(m)
\* after applying exactly the unapplied up-migrations below m, or with the
\* error of one of those apply calls.
C2_NoApplyPastMismatch ==
    \A p \in Procs :
        C2_Case(p) =>
            LET m     == Min(MismatchedVersions(migrator, before[p]))
                below == { v \in UpVersions(migrator) \ DOMAIN before[p] : v < m }
            IN  /\ CalledFor(calls[p], "apply") \subseteq below
                /\ \/ /\ result[p] = << "VersionMismatch", m >>
                      /\ CalledFor(calls[p], "apply") = below
                      /\ \A v \in below : v \in DOMAIN table
                   \/ /\ result[p][1] = "Execute"
                      /\ result[p][2] \in below

C2_Witness ==
    \E p \in Procs :
        /\ C2_Case(p)
        /\ result[p] = << "VersionMismatch", 2 >>
        /\ calls[p][Len(calls[p])] = Call("apply", 1)
        /\ 1 \in DOMAIN table /\ 1 \notin DOMAIN before[p]

\* The premise of C3: a finished invocation on a table with no dirty marker
\* that holds a version no catalog record has.
C3_Case(p) ==
    /\ Finished(p) /\ cmd[p].op \in { "run", "revert" }
    /\ DirtyVersions(before[p]) = {}
    /\ DOMAIN before[p] \ CatalogVersions(migrator) # {}

\* C3 as claimed: without ignore_missing every such run or revert ends with
\* VersionMissing and changes nothing; with it, none ends with VersionMissing.
C3_MissingAlwaysReported ==
    \A p \in Procs :
        C3_Case(p) =>
            IF cmd[p].ignore_missing
            THEN result[p][1] # "VersionMissing"
            ELSE /\ result[p][1] = "VersionMissing"
                 /\ result[p][2] \in DOMAIN before[p] \ CatalogVersions(migrator)
                 /\ NoChangeCalls(calls[p])

\* C3 amended: the same, for the invocations whose target passes the
\* target-presence check (the check that comes first).
C3_MissingReportedAfterTargetCheck ==
    \A p \in Procs :
        (C3_Case(p) /\ TargetPresent(cmd[p], migrator)) =>
            IF cmd[p].ignore_missing
            THEN result[p][1] # "VersionMissing"
            ELSE /\ result[p][1] = "VersionMissing"
                 /\ result[p][2] \in DOMAIN before[p] \ CatalogVersions(migrator)
                 /\ NoChangeCalls(calls[p])
                 /\ table = before[p]

C3_Witness ==
    \E p \in Procs :
        /\ C3_Case(p) /\ TargetPresent(cmd[p], migrator)
        /\ cmd[p].op = "revert" /\ ~cmd[p].ignore_missing /\ ~cmd[p].dry_run
        /\ UpVersions(migrator) = {2} /\ DOMAIN before[p] = {1, 2}
        /\ result[p] = << "VersionMissing", 1 >>

\* The unapplied up-migrations of an invocation that are not above its target.
InRange(p) ==
    { v \in UpVersions(migrator) \ DOMAIN before[p] : \A t \in cmd[p].target_version : v <= t }

\* The unapplied up-migrations of an invocation that are above its target.
AboveTarget(p) ==
    { v \in UpVersions(migrator) \ DOMAIN before[p] : \E t \in cmd[p].target_version : v > t }

\* The invocation passes the checks made before the loop: the target is
\* present, the table holds no dirty marker and no version missing from the
\* catalog (or ignore_missing is set), and the target of a run is not below
\* (of a revert: not above) the latest applied version.
PassesEntryChecks(p) ==
    /\ TargetPresent(cmd[p], migrator)
    /\ DirtyVersions(before[p]) = {}
    /\ cmd[p].ignore_missing \/ DOMAIN before[p] \subseteq CatalogVersions(migrator)
    /\ \A t \in cmd[p].target_version :
           IF cmd[p].op = "run" THEN t >= MaxOf(DOMAIN before[p])
                                ELSE t <= MaxOf(DOMAIN before[p])

\* C4 as claimed, in its most favourable case (the dry run passes every
\* check made before the loop): every finished dry run made no apply call,
\* left the table as it was and reported 'Can apply' for every unapplied
\* up-migration that is not above the target.
C4_DryRunReportsAll ==
    \A p \in Procs :
        (Finished(p) /\ cmd[p].op = "run" /\ cmd[p].dry_run /\ PassesEntryChecks(p)) =>
            /\ CalledFor(calls[p], "apply") = {}
            /\ table = before[p]
            /\ InRange(p) \subseteq Reported(out[p], "Can apply")

\* C4 amended: a dry run never calls apply and leaves the table as it was;
\* when it ends successfully it has reported 'Can apply' for exactly the
\* unapplied up-migrations that are not above the target.
C4_DryRunReportsAllWhenOk ==
    \A p \in Procs :
        (Started(p) /\ cmd[p].op = "run" /\ cmd[p].dry_run) =>
            /\ CalledFor(calls[p], "apply") = {}
            /\ table = before[p]
            /\ (Finished(p) /\ result[p] = Ok) =>
                   Reported(out[p], "Can apply") = InRange(p)

C4_Witness ==
    \E p \in Procs :
        /\ Finished(p) /\ cmd[p].op = "run" /\ cmd[p].dry_run /\ result[p] = Ok
        /\ cmd[p].target_version = Some(1)
        /\ InRange(p) = {1} /\ AboveTarget(p) = {2}
        /\ out[p] = << << "Can apply", 1 >>, << "Skipped", 2 >> >>

\* The applied versions of an invocation that have a down record.
Revertible(p) == DOMAIN before[p] \cap DownVersions(migrator)

\* C5: a revert without target makes at most one revert call, for the
\* highest applied version that has a down record, and every other applied
\* version keeps its row.
C5_RevertWithoutTargetRevertsOne ==
    \A p \in Procs :
        (Started(p) /\ cmd[p].op = "revert" /\ cmd[p].target_version = None) =>
            /\ CountOf(calls[p], "revert") <= 1
            /\ CalledFor(calls[p], "revert") \subseteq { MaxOf(Revertible(p)) } \cap Revertible(p)
            /\ \A v \in DOMAIN before[p] \ CalledFor(calls[p], "revert") :
                   v \in DOMAIN table /\ table[v] = before[p][v]

C5_Witness ==
    \E p \in Procs :
        /\ Finished(p) /\ cmd[p].op = "revert" /\ cmd[p].target_version = None
        /\ result[p] = Ok
        /\ Revertible(p) = {1, 2}
        /\ CalledFor(calls[p], "revert") = {2}
        /\ DOMAIN table = {1}

\* The premise of C10: a finished run, not dry, with a target that is
\* present in the catalog and not below the latest applied version.
C10_Case(p) ==
    /\ Finished(p) /\ cmd[p].op = "run" /\ ~cmd[p].dry_run
    /\ cmd[p].target_version # None
    /\ TargetPresent(cmd[p], migrator)
    /\ \A t \in cmd[p].target_version : t >= MaxOf(DOMAIN before[p])

\* C10 as claimed, in its most favourable case (the run passes every check
\* made before the loop and no script fails): such a run applies exactly the
\* unapplied up-migrations that are not above the target, reports 'Skipped'
\* for those above it, and adds no version above the target.
C10_TargetAppliesExactly ==
    \A p \in Procs :
        (C10_Case(p) /\ PassesEntryChecks(p) /\ result[p][1] # "Execute") =>
            /\ CalledFor(calls[p], "apply") = InRange(p)
            /\ InRange(p) \subseteq DOMAIN table
            /\ AboveTarget(p) \subseteq Reported(out[p], "Skipped")
            /\ DOMAIN table \ DOMAIN before[p] \subseteq InRange(p)

\* C10 amended: such a run never calls apply for a version above the target
\* and adds no version above it; when it ends successfully it has applied
\* exactly the unapplied up-migrations that are not above the target and
\* reported 'Skipped' for exactly those above it.
C10_TargetAppliesExactlyWhenOk ==
    \A p \in Procs :
        C10_Case(p) =>
            /\ CalledFor(calls[p], "apply") \subseteq InRange(p)
            /\ DOMAIN table \ DOMAIN before[p] \subseteq InRange(p)
            /\ result[p] = Ok =>
                   /\ CalledFor(calls[p], "apply") = InRange(p)
                   /\ InRange(p) \subseteq DOMAIN table
                   /\ \A v \in InRange(p) : table[v] = [checksum |-> "cur", success |-> TRUE]
                   /\ Reported(out[p], "Applied") = InRange(p)
                   /\ Reported(out[p], "Skipped") = AboveTarget(p)

C10_Witness ==
    \E p \in Procs :
        /\ C10_Case(p) /\ result[p] = Ok
        /\ cmd[p].target_version = Some(1)
        /\ InRange(p) = {1} /\ AboveTarget(p) = {2}
        /\ DOMAIN table = {1}
        /\ out[p] = << << "Applied", 1 >>, << "Skipped", 2 >> >>

-----------------------------------------------------------------------------
(* C6, C7: the lock.                                                       *)

\* The places of the apply and revert calls in a log of calls.
ChangeCalls(log) == { i \in 1..Len(log) : log[i][1] \in {"apply", "revert"} }

\* C6: every apply or revert call of an invocation comes after a lock call
\* of that invocation, and when the invocation has ended an unlock call
\* comes after it.
C6_LockAroundChanges ==
    \A p \in Procs :
        \A i \in ChangeCalls(calls[p]) :
            /\ \E j \in 1..(i - 1) : calls[p][j] = Call("lock", 0)
            /\ Finished(p) => \E j \in (i + 1)..Len(calls[p]) : calls[p][j] = Call("unlock", 0)

\* The invocation is inside its loop and has made an apply or revert call.
Migrating(p) == pc[p] = "loop" /\ ChangeCalls(calls[p]) # {}

\* C7: of two invocations against the same database at most one is inside
\* its apply/revert loop at any time; stated for the invocations that have
\* made an apply or revert call, so that a violation shows their calls
\* interleaved.
C7_OneMigrationProcessAtATime ==
    \A p, q \in Procs : p # q => ~(Migrating(p) /\ Migrating(q))

-----------------------------------------------------------------------------
(* C8, C9: sequences of invocations (SpecSeq).                             *)

IsPlain(e, op) ==
    /\ e.cmd.op = op /\ ~e.cmd.dry_run /\ e.cmd.target_version = None

\* The versions of the calls of `name` in a log of calls, in call order.
RECURSIVE VersionsInOrder(_, _)
VersionsInOrder(log, name) ==
    IF log = << >> THEN << >>
    ELSE (IF Head(log)[1] = name THEN << Head(log)[2] >> ELSE << >>)
            \o VersionsInOrder(Tail(log), name)

RECURSIVE Ascending(_)
Ascending(S) ==
    IF S = {} THEN << >> ELSE << Min(S) >> \o Ascending(S \ { Min(S) })

\* trace[i] is a run that applied v, a reversible migration that was its
\* only pending migration and is above every version applied before it,
\* and trace[i + 1] is a revert without target that succeeded.
C8_Pair(i, v) ==
    /\ i + 1 <= Len(trace)
    /\ trace[i].cmd.op = "run" /\ ~trace[i].cmd.dry_run
    /\ UpVersions(migrator) \ DOMAIN trace[i].before = {v}
    /\ v \in DownVersions(migrator)
    /\ v > MaxOf(DOMAIN trace[i].before)
    /\ Reported(trace[i].out, "Applied") = {v}
    /\ IsPlain(trace[i + 1], "revert")
    /\ trace[i + 1].result = Ok

\* C8: after such a run and revert the table is the one before the run, with
\* no row for v; when the same two commands are then repeated and succeed,
\* the run applies v again and the revert leaves the same table again.
C8_ApplyThenRevertRestores ==
    \A i \in 1..Len(trace), v \in Versions :
        C8_Pair(i, v) =>
            /\ v \in DOMAIN trace[i].after
            /\ trace[i + 1].after = trace[i].before
            /\ v \notin DOMAIN trace[i + 1].after
            /\ ( /\ i + 3 <= Len(trace)
                 /\ trace[i + 2].cmd = trace[i].cmd /\ trace[i + 2].result = Ok
                 /\ trace[i + 3].cmd = trace[i + 1].cmd /\ trace[i + 3].result = Ok )
               => /\ C8_Pair(i + 2, v)
                  /\ trace[i + 3].after = trace[i + 1].after

C8_Witness ==
    /\ Len(trace) = 4
    /\ C8_Pair(1, 2) /\ C8_Pair(3, 2)
    /\ DOMAIN trace[1].before = {1}
    /\ DOMAIN trace[3].after = {1, 2}
    /\ DOMAIN trace[4].after = {1}

\* The scenario of C9: every catalog version is a reversible pair, nothing
\* is applied, and the first invocation is a run without target that
\* succeeded.
C9_Scenario ==
    /\ Len(trace) >= 1
    /\ UpVersions(migrator) = CatalogVersions(migrator)
    /\ DownVersions(migrator) = CatalogVersions(migrator)
    /\ trace[1].before = EmptyTable
    /\ IsPlain(trace[1], "run") /\ trace[1].result = Ok

\* The catalog versions that have at least k catalog versions above them.
AllButHighest(k) ==
    { v \in CatalogVersions(migrator) :
        Cardinality({ w \in CatalogVersions(migrator) : w > v }) >= k }

\* C9: in that scenario the run applies every version, in ascending order;
\* the k-th of the successful reverts without target that follow it makes
\* one revert call, for the highest version still applied, and leaves
\* exactly the versions applied that have k or more versions above them.
C9_RunAllThenRevertOneByOne ==
    C9_Scenario =>
        /\ VersionsInOrder(trace[1].calls, "apply") = Ascending(CatalogVersions(migrator))
        /\ DOMAIN trace[1].after = CatalogVersions(migrator)
        /\ \A k \in 1..(Len(trace) - 1) :
              (\A j \in 2..(k + 1) : IsPlain(trace[j], "revert") /\ trace[j].result = Ok) =>
                  /\ DOMAIN trace[k + 1].after = AllButHighest(k)
                  /\ VersionsInOrder(trace[k + 1].calls, "revert")
                        = (IF AllButHighest(k - 1) = {} THEN << >>
                           ELSE << Max(AllButHighest(k - 1)) >>)

C9_Witness ==
    /\ C9_Scenario
    /\ Len(trace) = 3
    /\ CatalogVersions(migrator) = {1, 2}
    /\ \A j \in 2..3 : IsPlain(trace[j], "revert") /\ trace[j].result = Ok
    /\ trace[1].out = << << "Applied", 1 >>, << "Applied", 2 >> >>
    /\ DOMAIN trace[1].after = {1, 2}
    /\ DOMAIN trace[2].after = {1}
    /\ trace[2].out = << << "Applied", 2 >> >>
    /\ trace[3].after = EmptyTable

-----------------------------------------------------------------------------
(* C11: revert with a target (Spec).                                       *)

RECURSIVE Descending(_)
Descending(S) ==
    IF S = {} THEN << >> ELSE << Max(S) >> \o Descending(S \ { Max(S) })

IsPrefix(a, b) == Len(a) <= Len(b) /\ \A i \in 1..Len(a) : a[i] = b[i]

\* The applied versions with a down record that are above the target.
AboveTargetRevertible(p) ==
    { v \in Revertible(p) : \A t \in cmd[p].target_version : v > t }

\* The premise of C11: a revert with a target, not dry, that passes the
\* checks made before the loop.
C11_Case(p) ==
    /\ Started(p) /\ cmd[p].op = "revert" /\ ~cmd[p].dry_run
    /\ cmd[p].target_version # None
    /\ PassesEntryChecks(p)

\* C11: such a revert makes its revert calls in descending version order,
\* for applied versions above the target that have a down record, and
\* every row at or below the target stays as it was; when it ends
\* successfully it has reverted exactly those versions, all of the applied
\* versions with a down record when the target is 0.
C11_RevertToTarget ==
    \A p \in Procs :
        C11_Case(p) =>
            /\ IsPrefix(VersionsInOrder(calls[p], "revert"), Descending(AboveTargetRevertible(p)))
            /\ \A v \in DOMAIN before[p] \ AboveTargetRevertible(p) :
                   v \in DOMAIN table /\ table[v] = before[p][v]
            /\ (Finished(p) /\ result[p] = Ok) =>
                   /\ VersionsInOrder(calls[p], "revert") = Descending(AboveTargetRevertible(p))
                   /\ DOMAIN table = DOMAIN before[p] \ AboveTargetRevertible(p)
                   /\ cmd[p].target_version = Some(0) =>
                          DOMAIN table \cap DownVersions(migrator) = {}

C11_Witness ==
    \E p \in Procs :
        /\ C11_Case(p) /\ Finished(p) /\ result[p] = Ok
        /\ cmd[p].target_version = Some(0)
        /\ UpVersions(migrator) = {1} /\ DownVersions(migrator) = {1, 2}
        /\ DOMAIN before[p] = {1, 2}
        /\ VersionsInOrder(calls[p], "revert") = << 2, 1 >>
        /\ table = EmptyTable

-----------------------------------------------------------------------------
(* C14, C15: the target against the latest applied version (Spec).         *)

\* The table an invocation started from holds a version that the catalog
\* does not have, and the invocation does not ignore missing versions.
MissingBlocks(p) ==
    /\ ~cmd[p].ignore_missing
    /\ DOMAIN before[p] \ CatalogVersions(migrator) # {}

C14_Case(p, t) ==
    /\ Finished(p) /\ cmd[p].op = "run"
    /\ cmd[p].target_version = Some(t)
    /\ t \in UpVersions(migrator)

\* C14 as stated, on a table without dirty marker: a run with a target T of
\* the catalog ends with VersionTooOld(T, latest) whenever T < latest, and
\* never when T >= latest.
C14_TooOldWheneverBelowLatest ==
    \A p \in Procs : \A t \in 0..MaxVersion :
        (C14_Case(p, t) /\ DirtyVersions(before[p]) = {}) =>
            LET latest == MaxOf(DOMAIN before[p])
            IN  /\ t < latest =>
                    (result[p] = << "VersionTooOld", t, latest >> /\ NoChangeCalls(calls[p]))
                /\ t >= latest => result[p][1] # "VersionTooOld"

\* C14: a run with a target T of the catalog, on a table without dirty
\* marker and without a version missing from the catalog (unless missing
\* versions are ignored), ends with VersionTooOld(T, latest) whenever
\* T < latest; whatever the table, a run with T < latest makes no apply
\* call, and a run with T >= latest never ends with VersionTooOld.
C14_TooOldAfterDirtyAndMissingChecks ==
    \A p \in Procs : \A t \in 0..MaxVersion :
        C14_Case(p, t) =>
            LET latest == MaxOf(DOMAIN before[p])
            IN  /\ t < latest =>
                    /\ NoChangeCalls(calls[p])
                    /\ (DirtyVersions(before[p]) = {} /\ ~MissingBlocks(p)) =>
                           result[p] = << "VersionTooOld", t, latest >>
                /\ t >= latest => result[p][1] # "VersionTooOld"

C14_Witness ==
    \E p \in Procs :
        /\ C14_Case(p, 1)
        /\ DOMAIN before[p] = {1, 2}
        /\ DirtyVersions(before[p]) = {} /\ ~MissingBlocks(p)
        /\ result[p] = << "VersionTooOld", 1, 2 >>
        /\ CalledFor(calls[p], "list_applied_migrations") # {}

C15_Case(p, t) ==
    /\ Finished(p) /\ cmd[p].op = "revert"
    /\ cmd[p].target_version = Some(t)

\* C15 as stated, on a table without dirty marker: a revert with a target T
\* ends with VersionTooNew(T, latest) whenever T > latest, and never when
\* T <= latest.
C15_TooNewWheneverAboveLatest ==
    \A p \in Procs : \A t \in 0..MaxVersion :
        (C15_Case(p, t) /\ DirtyVersions(before[p]) = {}) =>
            LET latest == MaxOf(DOMAIN before[p])
            IN  /\ t > latest =>
                    (result[p] = << "VersionTooNew", t, latest >> /\ NoChangeCalls(calls[p]))
                /\ t <= latest => result[p][1] # "VersionTooNew"

\* C15: a revert with a target T that has an up record in the catalog, on a
\* table without dirty marker and without a version missing from the
\* catalog (unless missing versions are ignored), ends with
\* VersionTooNew(T, latest) whenever T > latest; whatever the catalog and
\* the table, a revert with T > latest makes no revert call, and a revert
\* with T <= latest, T = 0 on an empty table included, never ends with
\* VersionTooNew.
C15_TooNewAfterEarlierChecks ==
    \A p \in Procs : \A t \in 0..MaxVersion :
        C15_Case(p, t) =>
            LET latest == MaxOf(DOMAIN before[p])
            IN  /\ t > latest =>
                    /\ NoChangeCalls(calls[p])
                    /\ (/\ t \in UpVersions(migrator)
                        /\ DirtyVersions(before[p]) = {}
                        /\ ~MissingBlocks(p)) =>
                           result[p] = << "VersionTooNew", t, latest >>
                /\ t <= latest => result[p][1] # "VersionTooNew"

C15_Witness ==
    \E p \in Procs :
        /\ C15_Case(p, 2)
        /\ 2 \in UpVersions(migrator)
        /\ DOMAIN before[p] = {1}
        /\ DirtyVersions(before[p]) = {} /\ ~MissingBlocks(p)
        /\ result[p] = << "VersionTooNew", 2, 1 >>
        /\ CalledFor(calls[p], "list_applied_migrations") # {}

-----------------------------------------------------------------------------
(* C16: a target that the catalog does not have (Spec).                    *)

C16_Case(p, t) ==
    /\ Started(p) /\ cmd[p].op \in { "run", "revert" }
    /\ cmd[p].target_version = Some(t)

\* C16: a run whose target has no up record in the catalog, and a revert
\* whose target is not 0 and has no up record in the catalog, have ended
\* with VersionNotPresent(target) without any store call; no other run or
\* revert ends with VersionNotPresent, a revert to 0 in particular.
C16_AbsentTargetRejectedFirst ==
    \A p \in Procs : \A t \in 0..MaxVersion :
        C16_Case(p, t) =>
            IF t \notin UpVersions(migrator) /\ ~(cmd[p].op = "revert" /\ t = 0)
            THEN /\ Finished(p)
                 /\ result[p] = << "VersionNotPresent", t >>
                 /\ calls[p] = << >>
                 /\ table = before[p]
            ELSE result[p][1] # "VersionNotPresent"

C16_Witness ==
    \E p \in Procs :
        /\ C16_Case(p, 2) /\ cmd[p].op = "revert"
        /\ UpVersions(migrator) = {1} /\ DownVersions(migrator) = {1, 2}
        /\ DOMAIN before[p] = {1, 2}
        /\ result[p] = << "VersionNotPresent", 2 >>
        /\ calls[p] = << >>

-----------------------------------------------------------------------------
(* C17: the connection of a run (Spec).                                    *)

\* C17: a run that opened a connection and has ended, with success or with
\* an error, has called close on it.
C17_RunAlwaysCloses ==
    \A p \in Procs :
        (Finished(p) /\ cmd[p].op = "run" /\ CountOf(calls[p], "connect") > 0) =>
            CountOf(calls[p], "close") > 0

-----------------------------------------------------------------------------
(* C18: the order of the apply and revert calls (Spec).                    *)

StrictlyAscending(q) == \A i, j \in 1..Len(q) : i < j => q[i] < q[j]

StrictlyDescending(q) == \A i, j \in 1..Len(q) : i < j => q[i] > q[j]

\* C18: the apply calls of a run are in strictly ascending version order,
\* each for a version that has an up record and that the table did not hold
\* when the run started, and the rows they insert carry the checksum of the
\* up script; a run makes no revert call. The revert calls of a revert are
\* in strictly descending version order, each for a version that has a down
\* record and that the table held when the revert started; a revert makes
\* no apply call.
C18_CallsFollowCatalogOrder ==
    \A p \in Procs :
        /\ (Started(p) /\ cmd[p].op = "run") =>
              LET applies == VersionsInOrder(calls[p], "apply")
              IN  /\ StrictlyAscending(applies)
                  /\ \A i \in 1..Len(applies) :
                         /\ applies[i] \in UpVersions(migrator)
                         /\ applies[i] \notin DOMAIN before[p]
                  /\ \A v \in DOMAIN table \ DOMAIN before[p] :
                         table[v].checksum = "cur"
                  /\ CalledFor(calls[p], "revert") = {}
        /\ (Started(p) /\ cmd[p].op = "revert") =>
              LET reverts == VersionsInOrder(calls[p], "revert")
              IN  /\ StrictlyDescending(reverts)
                  /\ \A i \in 1..Len(reverts) :
                         /\ reverts[i] \in DownVersions(migrator)
                         /\ reverts[i] \in DOMAIN before[p]
                  /\ CalledFor(calls[p], "apply") = {}

C18_Witness ==
    \E p \in Procs :
        /\ Finished(p) /\ cmd[p].op = "run" /\ result[p] = Ok
        /\ UpVersions(migrator) = {1, 2} /\ DownVersions(migrator) = {1, 2}
        /\ before[p] = EmptyTable
        /\ VersionsInOrder(calls[p], "apply") = << 1, 2 >>
        /\ DOMAIN table = {1, 2}

-----------------------------------------------------------------------------
(* C19: a revert with nothing to revert (Spec).                            *)

\* C19: a revert, not a dry run, that passes its checks and makes no revert
\* call ends Ok and reports that no migrations are available to revert; one
\* that makes a revert call does not report it.
C19_NothingRevertedIsReported ==
    \A p \in Procs :
        (/\ Finished(p) /\ cmd[p].op = "revert" /\ ~cmd[p].dry_run
         /\ PassesEntryChecks(p)) =>
            IF CalledFor(calls[p], "revert") = {}
            THEN /\ result[p] = Ok
                 /\ Reported(out[p], "No migrations available to revert") # {}
            ELSE Reported(out[p], "No migrations available to revert") = {}

-----------------------------------------------------------------------------
(* C20: a failed apply and the invocations after it (Spec).                *)

\* The run has ended on a failed apply of version v that left the dirty
\* marker of v.
FailedApply(p, v) ==
    /\ Finished(p) /\ cmd[p].op = "run"
    /\ result[p] = << "Execute", v >>
    /\ v \in DirtyVersions(table)

\* The run stopped at its failed apply of v, kept what it had applied
\* before it and undid nothing.
AbortsAtFailedApply(p, v) ==
    LET applies == VersionsInOrder(calls[p], "apply")
    IN  /\ calls[p][Len(calls[p])] = Call("apply", v)
        /\ \A i \in 1..(Len(applies) - 1) :
               applies[i] \in DOMAIN table /\ table[applies[i]].success
        /\ \A u \in DOMAIN before[p] : u \in DOMAIN table /\ table[u] = before[p][u]
        /\ CalledFor(calls[p], "revert") = {}

\* An invocation started on a table with a dirty marker changes nothing.
DirtyChangesNothing(p) ==
    /\ NoChangeCalls(calls[p])
    /\ table = before[p]

\* The dirty markers of the table the invocation started from are such as
\* failed applies of this catalog leave.
MarkersOfFailedApplies(p) ==
    /\ DirtyVersions(before[p]) # {}
    /\ \A v \in DirtyVersions(before[p]) :
           v \in UpVersions(migrator) /\ before[p][v].checksum = "cur"

\* C20 as stated: a run whose apply fails leaving the dirty marker stops
\* there and keeps what it applied, and every run or revert started while
\* such a marker is in the table ends with Dirty and changes nothing.
C20_EveryLaterInvocationEndsDirty ==
    \A p \in Procs :
        /\ \A v \in Versions : FailedApply(p, v) => AbortsAtFailedApply(p, v)
        /\ (/\ Started(p) /\ cmd[p].op \in { "run", "revert" }
            /\ MarkersOfFailedApplies(p)) =>
               /\ DirtyChangesNothing(p)
               /\ Finished(p) => result[p][1] = "Dirty"

\* C20: a run whose apply fails leaving the dirty marker stops there and
\* keeps what it applied; every run or revert started while the marker is
\* in the table changes nothing, and ends with Dirty when its target passes
\* the presence check, with VersionNotPresent when it does not.
C20_LaterInvocationsEndDirtyOrNotPresent ==
    \A p \in Procs :
        /\ \A v \in Versions : FailedApply(p, v) => AbortsAtFailedApply(p, v)
        /\ (/\ Started(p) /\ cmd[p].op \in { "run", "revert" }
            /\ DirtyVersions(before[p]) # {}) =>
               /\ DirtyChangesNothing(p)
               /\ Finished(p) =>
                      IF TargetPresent(cmd[p], migrator)
                      THEN /\ result[p][1] = "Dirty"
                           /\ result[p][2] \in DirtyVersions(table)
                      ELSE result[p][1] = "VersionNotPresent"

C20_Witness ==
    \E p \in Procs :
        /\ FailedApply(p, 2)
        /\ before[p] = EmptyTable
        /\ VersionsInOrder(calls[p], "apply") = << 1, 2 >>
        /\ DOMAIN table = {1, 2}
        /\ table[1].success /\ ~table[2].success

-----------------------------------------------------------------------------
(* C21: pending migrations below the latest applied version (Spec).        *)

\* The unapplied up-migrations of an invocation that are below the highest
\* version the table held when it started.
OutOfOrder(p) ==
    { v \in UpVersions(migrator) \ DOMAIN before[p] : v < MaxOf(DOMAIN before[p]) }

C21_Case(p) ==
    /\ Finished(p) /\ cmd[p].op = "run" /\ ~cmd[p].dry_run
    /\ PassesEntryChecks(p)
    /\ MismatchedVersions(migrator, before[p]) = {}

\* C21: a run, not a dry run, that passes the checks made before the loop
\* and meets no checksum mismatch is not rejected because an unapplied
\* up-migration is below the latest applied version: it ends Ok unless a
\* script fails. When it ends Ok, every such migration that is not above
\* the target was applied and is in the table, none was reported as
\* skipped, and without a target every up version of the catalog is in the
\* table.
C21_OutOfOrderPendingIsApplied ==
    \A p \in Procs :
        C21_Case(p) =>
            /\ result[p][1] \in { "Ok", "Execute" }
            /\ result[p] = Ok =>
                /\ \A v \in OutOfOrder(p) :
                       (\A t \in cmd[p].target_version : v <= t) =>
                           /\ v \in CalledFor(calls[p], "apply")
                           /\ v \in DOMAIN table /\ table[v].success
                           /\ v \notin Reported(out[p], "Skipped")
                /\ cmd[p].target_version = None =>
                       UpVersions(migrator) \subseteq DOMAIN table

C21_Witness ==
    \E p \in Procs :
        /\ C21_Case(p) /\ result[p] = Ok
        /\ cmd[p].target_version = None
        /\ UpVersions(migrator) = {1, 2}
        /\ DOMAIN before[p] = {2}
        /\ OutOfOrder(p) = {1}
        /\ VersionsInOrder(calls[p], "apply") = << 1 >>
        /\ DOMAIN table = {1, 2}

-----------------------------------------------------------------------------
(* C13: info (Spec).                                                       *)

\* The status lines an invocation has printed for version v.
StatusLines(lines, v) ==
    { i \in 1..Len(lines) :
        /\ lines[i][2] = v
        /\ lines[i][1] \in { "pending", "installed", "installed (different checksum)" } }

\* C13: an info invocation always ends Ok, makes no apply or revert call and
\* leaves the table as it was; it prints exactly one status line for every
\* version with an up record and none for a version with only a down
\* record: pending when the table has no row of the version, installed when
\* the row has the checksum of the script, installed (different checksum)
\* when it has another.
C13_InfoReportsStatus ==
    \A p \in Procs :
        (Started(p) /\ cmd[p].op = "info") =>
            /\ NoChangeCalls(calls[p])
            /\ table = before[p]
            /\ Finished(p) =>
                /\ result[p] = Ok
                /\ \A v \in DownVersions(migrator) \ UpVersions(migrator) :
                       \A i \in 1..Len(out[p]) : out[p][i][2] # v
                /\ \A v \in UpVersions(migrator) :
                       /\ Cardinality(StatusLines(out[p], v)) = 1
                       /\ v \in Reported(out[p], "pending") <=> v \notin DOMAIN table
                       /\ v \in Reported(out[p], "installed") <=>
                              (v \in DOMAIN table /\ table[v].checksum = "cur")
                       /\ v \in Reported(out[p], "installed (different checksum)") <=>
                              (v \in DOMAIN table /\ table[v].checksum # "cur")

C13_Witness ==
    \E p \in Procs :
        /\ Finished(p) /\ cmd[p].op = "info" /\ result[p] = Ok
        /\ UpVersions(migrator) = {1, 2} /\ DownVersions(migrator) = {1}
        /\ DOMAIN table = {1}
        /\ table[1].checksum = "old"
        /\ Reported(out[p], "installed (different checksum)") = {1}
        /\ Reported(out[p], "pending") = {2}

-----------------------------------------------------------------------------
(* MigrationOrdering::infer, the naming scheme of a new migration (add).   *)

\* Highest version of the catalogs the naming scheme is inferred from:
\* their versions are 0..MaxInferVersion.
MaxInferVersion == 3

RECURSIVE MigratorOver(_, _, _)
MigratorOver(shapes, v, hi) ==
    IF v > hi THEN << >>
    ELSE RecordsOf(v, shapes[v]) \o MigratorOver(shapes, v + 1, hi)

InferCatalogs ==
    { MigratorOver(sh, 0, MaxInferVersion) : sh \in [0..MaxInferVersion -> Shapes] }

\* MigrationOrdering::timestamp: the prefix is the wall-clock time, which
\* is outside the model.
timestamp == << "Timestamp" >>

\* MigrationOrdering::sequential: the prefix is the version, zero-padded.
sequential(version) == << "Sequential", version >>

RECURSIVE Rev(_)
Rev(q) == IF q = << >> THEN << >> ELSE Rev(Tail(q)) \o << Head(q) >>

Take(q, n) == SubSeq(q, 1, IF Len(q) < n THEN Len(q) ELSE n)

IsUp(migration) == is_up_migration(migration.migration_type)

\* LastTwoUp without the filter on up migrations.
LastTwoUp_NoFilter(m) == Take(Rev(m), 2)

\* infer: migrator.iter().filter(is_up_migration).rev().take(2)
LastTwoUp(m) == Take(Rev(SelectSeq(m, IsUp)), 2)

\* MigrationOrdering::infer; both flags set is a panic.
infer(seq_flag, ts_flag, m) ==
    CASE ts_flag /\ seq_flag   -> << "Panic" >>
      [] ts_flag /\ ~seq_flag  -> timestamp
      [] ~ts_flag /\ seq_flag  ->
            sequential(IF Len(m) = 0 THEN 1 ELSE m[Len(m)].version + 1)
      [] ~ts_flag /\ ~seq_flag ->
            LET migrations == LastTwoUp(m)
            IN  IF Len(migrations) = 2
                THEN IF migrations[1].version - migrations[2].version = 1
                     THEN sequential(migrations[1].version + 1)
                     ELSE timestamp
                ELSE IF Len(migrations) = 1
                THEN IF migrations[1].version = 0 \/ migrations[1].version = 1
                     THEN sequential(migrations[1].version + 1)
                     ELSE timestamp
                ELSE timestamp

\* add: the naming scheme is inferred from the flags and the catalog.
Infer(p, seq_flag, ts_flag) ==
    /\ pc[p] = "idle"
    /\ cmd' = [cmd EXCEPT ![p] = [op |-> "add", dry_run |-> FALSE, ignore_missing |-> FALSE,
                                  target_version |-> None,
                                  sequential |-> seq_flag, timestamp |-> ts_flag]]
    /\ Ends(p, infer(seq_flag, ts_flag, migrator))
    /\ UNCHANGED << migrator, table, applied_migrations, idx, is_applied, calls, out, before, trace >>

InitInfer ==
    /\ migrator \in InferCatalogs
    /\ table = EmptyTable
    /\ InitLocals

NextInfer ==
    \/ \E seq_flag \in BOOLEAN, ts_flag \in BOOLEAN : Infer("p1", seq_flag, ts_flag)
    \/ Return("p1")

\* The naming scheme inferred for every catalog and every choice of flags.
SpecInfer == InitInfer /\ [][NextInfer]_vars

\* The two highest up versions of the catalog differ by exactly 1.
LastTwoContiguous(ups) ==
    /\ Cardinality(ups) >= 2
    /\ Max(ups) - Max(ups \ { Max(ups) }) = 1

\* C12: with neither flag set the inference depends on the up versions
\* alone, and gives Sequential(last + 1) exactly when the two highest up
\* versions differ by 1, or there is one up version and it is 0 or 1;
\* Timestamp in every other case.
C12_InferNamingScheme ==
    \A p \in Procs :
        (Finished(p) /\ cmd[p].op = "add" /\ ~cmd[p].sequential /\ ~cmd[p].timestamp) =>
            LET ups == UpVersions(migrator)
            IN  result[p] =
                    IF \/ LastTwoContiguous(ups)
                       \/ (Cardinality(ups) = 1 /\ Max(ups) \in {0, 1})
                    THEN << "Sequential", Max(ups) + 1 >>
                    ELSE << "Timestamp" >>

C12_Witness ==
    \E p \in Procs :
        /\ Finished(p) /\ cmd[p].op = "add" /\ ~cmd[p].sequential /\ ~cmd[p].timestamp
        /\ UpVersions(migrator) = {0, 2, 3}
        /\ DownVersions(migrator) = {1, 3}
        /\ result[p] = << "Sequential", 4 >>

====
